---- MODULE Spec2Model ----
(***************************************************************************)
(* A model of src/main.py: the regex-driven section splitter               *)
(* (extract_sections), the chunking summarizer adapter (summarize_text)    *)
(* and the report assembly of main().                                      *)
(*                                                                         *)
(* A Python str is a sequence of one-character strings.  Positions are     *)
(* 0-based as in Python: the character at position p is text[p + 1], and   *)
(* the slice text[a:b] is Slice(text, a, b).                               *)
(***************************************************************************)
EXTENDS Integers, Sequences, FiniteSets, TLC

(***************************************************************************)
(* Characters and character classes (ASCII part of the classes of re/str). *)
(***************************************************************************)
UpperSeq ==
    <<"A","B","C","D","E","F","G","H","I","J","K","L","M",
      "N","O","P","Q","R","S","T","U","V","W","X","Y","Z">>

LowerSeq ==
    <<"a","b","c","d","e","f","g","h","i","j","k","l","m",
      "n","o","p","q","r","s","t","u","v","w","x","y","z">>

Range(s) == {s[i] : i \in DOMAIN s}

\* \s  (also the set removed by str.strip())
SpaceChars == {" ", "\n", "\t", "\r", "\f"}

\* \d
DigitChars == {"0","1","2","3","4","5","6","7","8","9"}

\* [IVXLCDM]
RomanChars == {"I","V","X","L","C","D","M"}

\* [A-Z]
UpperChars == Range(UpperSeq)

\* [a-zA-Z\s]
TitleChars == Range(UpperSeq) \cup Range(LowerSeq) \cup SpaceChars

\* str.lower() on one character
LowerChar(c) ==
    IF c \in Range(UpperSeq)
    THEN LowerSeq[CHOOSE i \in DOMAIN UpperSeq : UpperSeq[i] = c]
    ELSE c

(***************************************************************************)
(* str operations                                                          *)
(***************************************************************************)
Min(a, b) == IF a < b THEN a ELSE b

\* text[a:b] for 0 <= a, 0 <= b
Slice(text, a, b) == SubSeq(text, a + 1, Min(b, Len(text)))

\* str.lower()
Lower(s) == [i \in DOMAIN s |-> LowerChar(s[i])]

\* str.replace(" ", "_")
SpacesToUnderscores(s) == [i \in DOMAIN s |-> IF s[i] = " " THEN "_" ELSE s[i]]

\* str.strip()
Strip(s) ==
    LET keep == {i \in DOMAIN s : s[i] \notin SpaceChars}
    IN  IF keep = {} THEN <<>>
        ELSE LET lo == CHOOSE i \in keep : \A j \in keep : i <= j
                 hi == CHOOSE i \in keep : \A j \in keep : j <= i
             IN  SubSeq(s, lo, hi)

\* sub == text[p : p + len(sub)]
StartsWithAt(text, p, sub) ==
    /\ p + Len(sub) <= Len(text)
    /\ \A i \in DOMAIN sub : text[p + i] = sub[i]

\* sub in text
Contains(text, sub) ==
    \E p \in 0..(Len(text) - Len(sub)) : StartsWithAt(text, p, sub)

\* The end of the longest run of characters of the class cls starting at p
\* (a greedy quantifier over a character class): the first position from p
\* on that holds no character of cls.
RunEnd(text, p, cls) ==
    IF p >= Len(text) THEN p
    ELSE LET stops == {q \in p..Len(text) : q = Len(text) \/ text[q + 1] \notin cls}
         IN  CHOOSE q \in stops : \A r \in stops : q <= r

\* The character at position p, "" past the end.
CharAt(text, p) == IF p < Len(text) THEN text[p + 1] ELSE ""

(***************************************************************************)
(* extract_sections: the heading pattern                                   *)
(*   ^\s*(\d{1,2}|[IVXLCDM]+)\.?\s+([A-Z][a-zA-Z\s]+)      (re.MULTILINE)  *)
(* Every quantifier of the pattern is followed by a character outside its  *)
(* class, so backtracking never finds a match the greedy run misses; the   *)
(* match at a position is the greedy one.                                  *)
(***************************************************************************)
NoMatch == [ok |-> FALSE, start |-> 0, end |-> 0, g2 |-> 0]

\* pattern.match at position p: start, end and the start of group 2.
HeadingAt(text, p) ==
    LET a == RunEnd(text, p, SpaceChars)                       \* ^\s*
        b == IF CharAt(text, a) \in DigitChars                 \* \d{1,2}
             THEN Min(RunEnd(text, a, DigitChars), a + 2)
             ELSE RunEnd(text, a, RomanChars)                  \* [IVXLCDM]+
        c == IF CharAt(text, b) = "." THEN b + 1 ELSE b        \* \.?
        d == RunEnd(text, c, SpaceChars)                       \* \s+
        e == RunEnd(text, d + 1, TitleChars)                   \* [a-zA-Z\s]+
    IN  IF /\ (p = 0 \/ text[p] = "\n")
           /\ b > a
           /\ d > c
           /\ CharAt(text, d) \in UpperChars
           /\ e > d + 1
        THEN [ok |-> TRUE, start |-> p, end |-> e, g2 |-> d]
        ELSE NoMatch

\* list(pattern.finditer(text)), scanning from position p: the leftmost
\* position from p on where the pattern matches, then on from that match's end.
RECURSIVE FindIter(_, _)
FindIter(text, p) ==
    LET found == {q \in p..(Len(text) - 1) : HeadingAt(text, q).ok}
    IN  IF found = {} THEN <<>>
        ELSE LET m == HeadingAt(text, CHOOSE q \in found : \A r \in found : q <= r)
             IN  <<m>> \o FindIter(text, m.end)

(***************************************************************************)
(* extract_sections: the abstract pattern                                  *)
(*   Abstract\n([\s\S]*?)(1\.?\s+Introduction)           (re.IGNORECASE)   *)
(***************************************************************************)
KwAbstractNl == <<"a","b","s","t","r","a","c","t","\n">>

KwIntroduction == <<"i","n","t","r","o","d","u","c","t","i","o","n">>

\* 1\.?\s+Introduction at position q; lowered is text.lower(), for IGNORECASE
IntroAt(text, lowered, q) ==
    LET c == IF CharAt(text, q + 1) = "." THEN q + 2 ELSE q + 1
        d == RunEnd(text, c, SpaceChars)
    IN  /\ CharAt(text, q) = "1"
        /\ d > c
        /\ StartsWithAt(lowered, d, KwIntroduction)

\* re.search: the leftmost "Abstract\n", then the nearest "1. Introduction".
AbstractSearch(text) ==
    LET lowered == Lower(text)
        intros == {q \in 0..Len(text) : IntroAt(text, lowered, q)}
        starts == {a \in 0..Len(text) :
                     /\ StartsWithAt(lowered, a, KwAbstractNl)
                     /\ \E q \in intros : q >= a + Len(KwAbstractNl)}
    IN  IF starts = {} THEN [ok |-> FALSE, g1 |-> <<>>]
        ELSE LET a == CHOOSE x \in starts : \A y \in starts : x <= y
                 after == {q \in intros : q >= a + Len(KwAbstractNl)}
                 q == CHOOSE x \in after : \A y \in after : x <= y
             IN  [ok |-> TRUE, g1 |-> Slice(text, a + Len(KwAbstractNl), q)]

(***************************************************************************)
(* extract_sections: the section map                                       *)
(***************************************************************************)
\* sections[k] = v
Put(sections, k, v) ==
    [x \in DOMAIN sections \cup {k} |-> IF x = k THEN v ELSE sections[x]]

\* text.split('\n')[0]
FirstLine(text) ==
    LET nl == {i \in DOMAIN text : text[i] = "\n"}
    IN  IF nl = {} THEN text
        ELSE SubSeq(text, 1, (CHOOSE i \in nl : \A j \in nl : i <= j) - 1)

KwMethod == <<"m","e","t","h","o","d">>

KwMethodology == <<"m","e","t","h","o","d","o","l","o","g","y">>

KwResult == <<"r","e","s","u","l","t">>

KwExperiment == <<"e","x","p","e","r","i","m","e","n","t">>

KwConclusion == <<"c","o","n","c","l","u","s","i","o","n">>

KwDiscussion == <<"d","i","s","c","u","s","s","i","o","n">>

KwRelatedWork == <<"r","e","l","a","t","e","d","_","w","o","r","k">>

KwLiteratureReview ==
    <<"l","i","t","e","r","a","t","u","r","e","_","r","e","v","i","e","w">>

KwReference == <<"r","e","f","e","r","e","n","c","e">>

\* match.group(2).strip().lower().replace(" ", "_")
SectionTitle(text, m) == SpacesToUnderscores(Lower(Strip(Slice(text, m.g2, m.end))))

\* The if/elif chain: the key the heading is stored under, "" when discarded.
Classify(section_title) ==
    IF Contains(section_title, KwIntroduction) THEN "introduction"
    ELSE IF Contains(section_title, KwMethod) \/ Contains(section_title, KwMethodology)
         THEN "method"
    ELSE IF Contains(section_title, KwResult) \/ Contains(section_title, KwExperiment)
         THEN "results"
    ELSE IF Contains(section_title, KwConclusion) \/ Contains(section_title, KwDiscussion)
         THEN "conclusion"
    ELSE IF Contains(section_title, KwRelatedWork)
              \/ Contains(section_title, KwLiteratureReview)
         THEN "literature_review"
    ELSE IF Contains(section_title, KwReference) THEN "references"
    ELSE ""

\* section_content of the i-th match
SectionContent(text, matches, i) ==
    LET start_index == matches[i].end
        end_index == IF i + 1 <= Len(matches) THEN matches[i + 1].start ELSE Len(text)
    IN  Strip(Slice(text, start_index, end_index))

\* StoreSection, were an earlier heading's content kept on a repeated key.
StoreSection_FirstWins(sections, text, matches, i) ==
    LET key == Classify(SectionTitle(text, matches[i]))
    IN  IF key = "" \/ key \in DOMAIN sections THEN sections
        ELSE Put(sections, key, SectionContent(text, matches, i))

\* StoreSection, were a heading outside the if/elif chain stored under its
\* own title.
StoreSection_KeepOther(sections, text, matches, i) ==
    LET key == Classify(SectionTitle(text, matches[i]))
    IN  Put(sections, IF key = "" THEN "other" ELSE key, SectionContent(text, matches, i))

\* One iteration of the loop over the matches.
StoreSection(sections, text, matches, i) ==
    LET key == Classify(SectionTitle(text, matches[i]))
    IN  IF key = "" THEN sections
        ELSE Put(sections, key, SectionContent(text, matches, i))

\* The loop over the matches, from the i-th on.
RECURSIVE StoreSections(_, _, _, _)
StoreSections(sections, text, matches, i) ==
    IF i > Len(matches) THEN sections
    ELSE StoreSections(StoreSection(sections, text, matches, i), text, matches, i + 1)

extract_sections(text) ==
    LET s0 == [k \in {"raw_text"} |-> text]
        s1 == Put(s0, "title", Strip(FirstLine(text)))
        abstract_match == AbstractSearch(text)
        s2 == IF abstract_match.ok THEN Put(s1, "abstract", Strip(abstract_match.g1))
              ELSE s1
    IN  StoreSections(s2, text, FindIter(text, 0), 1)

(***************************************************************************)
(* summarize_text                                                          *)
(***************************************************************************)
\* range(i, stop, step)
RECURSIVE PyRange(_, _, _)
PyRange(i, stop, step) ==
    IF i >= stop THEN <<>> ELSE <<i>> \o PyRange(i + step, stop, step)

\* TextChunks, were the last, shorter chunk dropped.
TextChunks_FullOnly(text, max_chunk_length) ==
    [k \in 1..(Len(text) \div max_chunk_length) |->
        Slice(text, (k - 1) * max_chunk_length, k * max_chunk_length)]

\* [text[i:i+max_chunk_length] for i in range(0, len(text), max_chunk_length)]
TextChunks(text, max_chunk_length) ==
    LET starts == PyRange(0, Len(text), max_chunk_length)
    IN  [k \in DOMAIN starts |-> Slice(text, starts[k], starts[k] + max_chunk_length)]

\* summarizer(chunk, ...)[0]['summary_text']: the external model, a
\* deterministic function of the chunk (do_sample=False).  The stand-in
\* keeps the first character of the chunk, so that different chunks can give
\* different summaries.
Summarizer(chunk) == IF chunk = <<>> THEN <<>> ELSE <<Head(chunk)>>

\* " ".join(parts)
RECURSIVE JoinSpace(_)
JoinSpace(parts) ==
    IF parts = <<>> THEN <<>>
    ELSE IF Len(parts) = 1 THEN parts[1]
    ELSE parts[1] \o <<" ">> \o JoinSpace(Tail(parts))

\* f"Failed to load model. Error: {e}"
LoadError == <<"Failed to load model. Error: ", "e">>

\* The default of the parameter max_chunk_length.
max_chunk_length_default == 1024

\* summarize_text, were the model loaded for every chunk.
summarize_text_LoadPerChunk(text, max_chunk_length, load_ok) ==
    IF ~load_ok
    THEN [result |-> LoadError, loads |-> 1, calls |-> <<>>]
    ELSE LET text_chunks == TextChunks(text, max_chunk_length)
             summary_parts == [k \in DOMAIN text_chunks |-> Summarizer(text_chunks[k])]
         IN  [result |-> JoinSpace(summary_parts), loads |-> Len(text_chunks),
              calls |-> text_chunks]

\* summarize_text, were the error of a failed load not put in the result.
summarize_text_NoMessage(text, max_chunk_length, load_ok) ==
    LET text_chunks == TextChunks(text, max_chunk_length)
        summary_parts == [k \in DOMAIN text_chunks |-> Summarizer(text_chunks[k])]
    IN  IF ~load_ok
        THEN [result |-> <<>>, loads |-> 1, calls |-> <<>>]
        ELSE [result |-> JoinSpace(summary_parts), loads |-> 1, calls |-> text_chunks]

\* summarize_text(text, min_length, max_length, max_chunk_length) when
\* pipeline(...) succeeds (load_ok) or raises: the returned string, the
\* number of pipeline(...) calls and the chunks handed to the summarizer, in
\* order.  min_length and max_length are only passed on to the model.
summarize_text(text, max_chunk_length, load_ok) ==
    IF ~load_ok
    THEN [result |-> LoadError, loads |-> 1, calls |-> <<>>]
    ELSE LET text_chunks == TextChunks(text, max_chunk_length)
             summary_parts == [k \in DOMAIN text_chunks |-> Summarizer(text_chunks[k])]
         IN  [result |-> JoinSpace(summary_parts), loads |-> 1, calls |-> text_chunks]

(***************************************************************************)
(* main(): inputs                                                          *)
(***************************************************************************)
\* choices of --section
SectionChoices ==
    {"title", "abstract", "summary", "introduction", "method", "results",
     "conclusion", "contribution", "literature_review", "references", "all"}

\* The list 'all' stands for.
AllSections ==
    <<"title", "abstract", "summary", "introduction", "method", "results",
      "conclusion", "contribution", "literature_review">>

\* section_name.replace('_', ' ').capitalize(), over the names of --section
HeadingName(section_name) ==
    CASE section_name = "title" -> "Title"
      [] section_name = "abstract" -> "Abstract"
      [] section_name = "summary" -> "Summary"
      [] section_name = "introduction" -> "Introduction"
      [] section_name = "method" -> "Method"
      [] section_name = "results" -> "Results"
      [] section_name = "conclusion" -> "Conclusion"
      [] section_name = "contribution" -> "Contribution"
      [] section_name = "literature_review" -> "Literature review"
      [] section_name = "references" -> "References"
      [] section_name = "all" -> "All"

\* Pieces of paper text.  A heading's title runs over letters and whitespace,
\* newlines included, so a body that starts with a letter is part of the title.
PAbstract == <<"A","b","s","t","r","a","c","t","\n","a","b",".","\n">>

PIntroduction == <<"1","."," ","I","n","t","r","o","d","u","c","t","i","o","n","\n">>

PMethod == <<"2"," ","M","e","t","h","o","d",".","m","\n">>

PDiscussion == <<"I","I","."," ","D","i","s","c","u","s","s","i","o","n","\n">>

PConclusion == <<"3","."," ","C","o","n","c","l","u","s","i","o","n",":","c","\n">>

PRelatedWork == <<"4","."," ","R","e","l","a","t","e","d"," ","W","o","r","k","\n">>

PReferences == <<"5","."," ","R","e","f","e","r","e","n","c","e","s","[","1","]","\n">>

PResults == <<"6",".","\t","R","e","s","u","l","t","s","\n">>

PData == <<"I","V"," ","D","a","t","a",".","\n">>

PBody == <<"(","k",")","\n">>

Pieces ==
    {PAbstract, PIntroduction, PMethod, PDiscussion, PConclusion, PRelatedWork,
     PReferences, PResults, PData, PBody}

\* The number of pieces of a text the splitter is applied to.
MaxPieces == 3

\* The number of --section arguments.
MaxSections == 2

RECURSIVE Concats(_, _)
Concats(pieces, n) ==
    IF n = 0 THEN {<<>>}
    ELSE LET shorter == Concats(pieces, n - 1)
         IN  shorter \cup {t \o p : t \in shorter, p \in pieces}

Texts == Concats(Pieces, MaxPieces)

\* A body longer than one chunk.
PLong == <<"(">> \o [i \in 1..max_chunk_length_default |-> "x"] \o <<")", "\n">>

\* The papers main() is run on: an empty text; a title line only; an abstract
\* and an introduction heading with nothing under it; an abstract and two
\* sections with bodies; a discussion heading with nothing under it; a
\* discussion with a body; an introduction longer than a chunk; a paper with
\* abstract, introduction, method and results; a paper with conclusion,
\* related work and references.
Papers ==
    {<<>>,
     PBody,
     PAbstract \o PIntroduction,
     PAbstract \o PIntroduction \o PBody \o PDiscussion \o PBody,
     PBody \o PDiscussion,
     PBody \o PDiscussion \o PBody,
     PBody \o PIntroduction \o PLong,
     PBody \o PAbstract \o PIntroduction \o PBody \o PMethod \o PResults \o PBody,
     PBody \o PConclusion \o PRelatedWork \o PBody \o PReferences}

SectionArgs == UNION {[1..n -> SectionChoices] : n \in 1..MaxSections}

(***************************************************************************)
(* State                                                                   *)
(***************************************************************************)
VARIABLES
    pc,                  \* where main() is
    section_arg,         \* args.section
    full_text,           \* the text of the PDF
    sections,            \* the section map
    requested_sections,  \* the list the loop runs over
    report_content,      \* the report so far, a sequence of string pieces
    log,                 \* one record per finished loop iteration
    final_report,        \* the assembled report
    saved,               \* what save_to_markdown did
    pdf_error,           \* reading the PDF raised
    chunk_arg,           \* max_chunk_length of a summarize_text call on its own
    summary              \* the outcome of that call

vars ==
    <<pc, section_arg, full_text, sections, requested_sections, report_content,
      log, final_report, saved, pdf_error, chunk_arg, summary>>

NoSummary == [result |-> <<>>, loads |-> 0, calls |-> <<>>, loaded |-> FALSE]

\* After parse_args(), before the PDF is opened.
Init ==
    /\ pc = "open"
    /\ section_arg \in SectionArgs
    /\ full_text = <<>>
    /\ sections = <<>>
    /\ requested_sections = <<>>
    /\ report_content = <<>>
    /\ log = <<>>
    /\ final_report = <<>>
    /\ saved = "no"
    /\ pdf_error = FALSE
    /\ chunk_arg = max_chunk_length_default
    /\ summary = NoSummary

\* fitz.open and get_text succeed: full_text is the text of the pages.
OpenPDF ==
    /\ pc = "open"
    /\ \E t \in Papers : full_text' = t
    /\ pc' = "split"
    /\ UNCHANGED <<section_arg, sections, requested_sections, report_content, log,
                   final_report, saved, pdf_error, chunk_arg, summary>>

\* OpenPDFFails, were the return after the message missing.
OpenPDFFails_NoReturn ==
    /\ pc = "open"
    /\ pdf_error' = TRUE
    /\ pc' = "split"
    /\ UNCHANGED <<section_arg, full_text, sections, requested_sections,
                   report_content, log, final_report, saved, chunk_arg, summary>>

\* fitz.open or get_text raises: the message is printed and main() returns.
OpenPDFFails ==
    /\ pc = "open"
    /\ pdf_error' = TRUE
    /\ pc' = "done"
    /\ UNCHANGED <<section_arg, full_text, sections, requested_sections,
                   report_content, log, final_report, saved, chunk_arg, summary>>

\* sections = extract_sections(full_text); report_content = ""
Split ==
    /\ pc = "split"
    /\ sections' = extract_sections(full_text)
    /\ report_content' = <<>>
    /\ pc' = "expand"
    /\ UNCHANGED <<section_arg, full_text, requested_sections, log, final_report,
                   saved, pdf_error, chunk_arg, summary>>

\* ExpandAll, were 'all' replaced where it stands and the other entries kept.
RECURSIVE ExpandAll_InPlace(_)
ExpandAll_InPlace(requested) ==
    IF requested = <<>> THEN <<>>
    ELSE (IF Head(requested) = "all" THEN AllSections ELSE <<Head(requested)>>)
             \o ExpandAll_InPlace(Tail(requested))

\* requested_sections = args.section, or the fixed list when 'all' is in it
ExpandAll(requested) ==
    IF "all" \in Range(requested) THEN AllSections ELSE requested

Expand ==
    /\ pc = "expand"
    /\ requested_sections' = ExpandAll(section_arg)
    /\ pc' = "loop"
    /\ UNCHANGED <<section_arg, full_text, sections, report_content, log,
                   final_report, saved, pdf_error, chunk_arg, summary>>

\* sections.get(k, default)
Get(secs, k, default) == IF k \in DOMAIN secs THEN secs[k] ELSE default

\* not content, for content = sections.get(section_name)
NotContent(secs, section_name) == Get(secs, section_name, <<>>) = <<>>

NoContribution ==
    <<"Could not determine contribution (abstract or conclusion not found).\n\n">>

\* Skipped, were the test for missing content left out.
Skipped_Never(secs, section_name) == FALSE

\* if not content and section_name not in ['summary', 'contribution']
Skipped(secs, section_name) ==
    NotContent(secs, section_name) /\ section_name \notin {"summary", "contribution"}

\* sections.get('abstract', '') + " " + sections.get('conclusion', '')
ContribText(secs) ==
    Get(secs, "abstract", <<>>) \o <<" ">> \o Get(secs, "conclusion", <<>>)

\* HasContribution, were the text not stripped before the test.
HasContribution_Unstripped(contrib_text) == contrib_text # <<>>

\* if contrib_text.strip()
HasContribution(contrib_text) == Strip(contrib_text) # <<>>

\* One iteration of the loop over requested_sections: what it appends to
\* report_content, whether it is the early 'continue', and the model loads
\* and summarizer calls of its summarize_text call.
SectionBlock(secs, section_name, load_ok) ==
    LET content == Get(secs, section_name, <<>>)
        heading == <<"## ", HeadingName(section_name), "\n">>
        none == [loads |-> 0, loaded |-> FALSE, calls |-> <<>>]
        Summarized(text) ==
            LET s == summarize_text(text, max_chunk_length_default, load_ok)
            IN  [skipped |-> FALSE, text |-> heading \o s.result \o <<"\n\n">>,
                 loads |-> s.loads, loaded |-> load_ok, calls |-> s.calls]
    IN  IF Skipped(secs, section_name)
        THEN [skipped |-> TRUE, text |-> <<>>] @@ none
        ELSE IF section_name \in {"title", "abstract", "references"}
        THEN [skipped |-> FALSE, text |-> heading \o content \o <<"\n\n">>] @@ none
        ELSE IF section_name = "summary"
        THEN Summarized(secs["raw_text"])
        ELSE IF section_name = "contribution"
        THEN IF HasContribution(ContribText(secs))
             THEN Summarized(ContribText(secs))
             ELSE [skipped |-> FALSE, text |-> heading \o NoContribution] @@ none
        ELSE Summarized(content)

\* The body of the loop, for the next entry of requested_sections.
ProcessSection ==
    /\ pc = "loop"
    /\ Len(log) < Len(requested_sections)
    /\ \E load_ok \in BOOLEAN :
         LET section_name == requested_sections[Len(log) + 1]
             b == SectionBlock(sections, section_name, load_ok)
         IN  /\ report_content' = report_content \o b.text
             /\ log' = Append(log, [name |-> section_name,
                                    skipped |-> b.skipped,
                                    from |-> Len(report_content),
                                    to |-> Len(report_content) + Len(b.text),
                                    loads |-> b.loads,
                                    loaded |-> b.loaded,
                                    calls |-> b.calls])
    /\ UNCHANGED <<pc, section_arg, full_text, sections, requested_sections,
                   final_report, saved, pdf_error, chunk_arg, summary>>

Footer == <<"---\n*Report generated by the AI Paper Deconstructor.*">>

\* FinalReport, were the footer put before the section blocks.
FinalReport_FooterFirst(secs, content) ==
    <<"# Analysis of ">> \o Get(secs, "title", <<"Unknown Paper">>) \o <<"\n\n">>
        \o Footer \o content

\* f"# Analysis of {sections.get('title', 'Unknown Paper')}\n\n{report_content}"
\* followed by the footer
FinalReport(secs, content) ==
    <<"# Analysis of ">> \o Get(secs, "title", <<"Unknown Paper">>) \o <<"\n\n">>
        \o content \o Footer

\* The loop is over: the report is assembled and save_to_markdown writes it,
\* or catches the IOError of the write.
Finish ==
    /\ pc = "loop"
    /\ Len(log) = Len(requested_sections)
    /\ final_report' = FinalReport(sections, report_content)
    /\ \E write_ok \in BOOLEAN : saved' = IF write_ok THEN "written" ELSE "failed"
    /\ pc' = "done"
    /\ UNCHANGED <<section_arg, full_text, sections, requested_sections,
                   report_content, log, pdf_error, chunk_arg, summary>>

Next == OpenPDF \/ OpenPDFFails \/ Split \/ Expand \/ ProcessSection \/ Finish

Spec == Init /\ [][Next]_vars

(***************************************************************************)
(* extract_sections on its own, over more texts                            *)
(***************************************************************************)
InitSplit ==
    /\ pc = "split"
    /\ section_arg = <<>>
    /\ full_text \in Texts
    /\ sections = <<>>
    /\ requested_sections = <<>>
    /\ report_content = <<>>
    /\ log = <<>>
    /\ final_report = <<>>
    /\ saved = "no"
    /\ pdf_error = FALSE
    /\ chunk_arg = max_chunk_length_default
    /\ summary = NoSummary

SpecSplit == InitSplit /\ [][Split]_vars

(***************************************************************************)
(* summarize_text on its own, over texts and chunk lengths                 *)
(***************************************************************************)
\* The length of the text summarize_text is applied to.
MaxLen == 5

\* The largest max_chunk_length it is applied with.
MaxChunk == 3

SumTexts == UNION {[1..n -> {"a", "b"}] : n \in 0..MaxLen}

InitSum ==
    /\ pc = "summarize"
    /\ section_arg = <<>>
    /\ full_text \in SumTexts
    /\ sections = <<>>
    /\ requested_sections = <<>>
    /\ report_content = <<>>
    /\ log = <<>>
    /\ final_report = <<>>
    /\ saved = "no"
    /\ pdf_error = FALSE
    /\ chunk_arg \in 1..MaxChunk
    /\ summary = NoSummary

\* summarize_text(full_text, min_length, max_length, chunk_arg)
Summarize ==
    /\ pc = "summarize"
    /\ \E load_ok \in BOOLEAN :
         summary' = summarize_text(full_text, chunk_arg, load_ok) @@ [loaded |-> load_ok]
    /\ pc' = "done"
    /\ UNCHANGED <<section_arg, full_text, sections, requested_sections,
                   report_content, log, final_report, saved, pdf_error, chunk_arg>>

SpecSum == InitSum /\ [][Summarize]_vars

(***************************************************************************)
(* Properties of extract_sections (SpecSplit)                              *)
(***************************************************************************)
HeadingKeys ==
    {"introduction", "method", "results", "conclusion", "literature_review",
     "references"}

\* The key the i-th of the detected headings classifies to.
KeyOf(detected, i) == Classify(SectionTitle(full_text, detected[i]))

\* The text between the end of the i-th heading and the start of the next
\* heading (the end of the text for the last one), trimmed as it is stored.
SpanOf(detected, i) ==
    Strip(Slice(full_text, detected[i].end,
                IF i < Len(detected) THEN detected[i + 1].start ELSE Len(full_text)))

SplitDone == pc = "expand"

\* C6: when two or more detected headings classify into the same key, the
\* content stored under that key is the (trimmed) content of the last such
\* heading in document order, whatever the earlier ones held.
C6_LastHeadingWins ==
    SplitDone =>
        LET detected == FindIter(full_text, 0)
            key == [i \in DOMAIN detected |-> KeyOf(detected, i)]
        IN  \A k \in HeadingKeys :
                LET same == {i \in DOMAIN detected : key[i] = k}
                IN  same # {} =>
                        /\ k \in DOMAIN sections
                        /\ sections[k] =
                               SpanOf(detected, CHOOSE i \in same : \A j \in same : j <= i)

\* Two headings of one key with different contents, the later one stored.
C6_Witness ==
    /\ SplitDone
    /\ LET detected == FindIter(full_text, 0)
           key == [i \in DOMAIN detected |-> KeyOf(detected, i)]
       IN  \E i, j \in DOMAIN detected :
             /\ i < j
             /\ key[i] = key[j]
             /\ key[i] \in HeadingKeys
             /\ \A l \in DOMAIN detected : l > j => key[l] # key[j]
             /\ SpanOf(detected, i) # SpanOf(detected, j)
             /\ SpanOf(detected, i) # <<>>
             /\ sections[key[j]] = SpanOf(detected, j)

\* C9: the keys of the section map are within the fixed set; raw_text is
\* always there and is the input text; a heading key is there only if some
\* detected heading classifies to it; with no heading detected the keys are
\* title and raw_text, and abstract exactly when the abstract pattern matched.
C9_SectionMapKeys ==
    SplitDone =>
        LET detected == FindIter(full_text, 0)
            key == [i \in DOMAIN detected |-> KeyOf(detected, i)]
        IN  /\ DOMAIN sections \subseteq
                   {"title", "abstract", "introduction", "method", "results",
                    "conclusion", "literature_review", "references", "raw_text"}
            /\ "raw_text" \in DOMAIN sections
            /\ sections["raw_text"] = full_text
            /\ \A k \in HeadingKeys :
                   k \in DOMAIN sections => \E i \in DOMAIN detected : key[i] = k
            /\ detected = <<>> =>
                   DOMAIN sections =
                       {"title", "raw_text"}
                           \cup (IF AbstractSearch(full_text).ok THEN {"abstract"} ELSE {})

\* A text whose headings are all discarded is split: only title and raw_text.
C9_Witness ==
    /\ SplitDone
    /\ LET detected == FindIter(full_text, 0)
       IN  /\ detected # <<>>
           /\ \A i \in DOMAIN detected : KeyOf(detected, i) = ""
    /\ DOMAIN sections = {"title", "raw_text"}

(***************************************************************************)
(* Properties of summarize_text (SpecSum)                                  *)
(***************************************************************************)
RECURSIVE Flatten(_)
Flatten(seqs) == IF seqs = <<>> THEN <<>> ELSE Head(seqs) \o Flatten(Tail(seqs))

\* C8: with the model loaded, a text of length L and a chunk length C >= 1
\* give ceil(L/C) consecutive chunks whose concatenation is the text, all of
\* length C but the last, which has between 1 and C characters; the
\* summarizer is called once per chunk, in order, and the result is the
\* chunk summaries (one character each here) separated by single spaces, the
\* empty string when L = 0.
C8_Chunking ==
    (pc = "done" /\ summary.loaded) =>
        LET L == Len(full_text)
            C == chunk_arg
            chunks == summary.calls
            n == Len(chunks)
        IN  /\ n = (L + C - 1) \div C
            /\ n * C >= L
            /\ (n - 1) * C < L \/ (n = 0 /\ L = 0)
            /\ Flatten(chunks) = full_text
            /\ \A k \in 1..(n - 1) : Len(chunks[k]) = C
            /\ n > 0 => Len(chunks[n]) \in 1..C
            /\ summary.loads = 1
            /\ Len(summary.result) = IF n = 0 THEN 0 ELSE 2 * n - 1
            /\ \A k \in 1..n : summary.result[2 * k - 1] = full_text[(k - 1) * C + 1]
            /\ \A k \in 1..(n - 1) : summary.result[2 * k] = " "

\* A text that is cut into full chunks and a shorter last one.
C8_Witness ==
    /\ pc = "done"
    /\ summary.loaded
    /\ Len(summary.calls) >= 2
    /\ Len(summary.calls[Len(summary.calls)]) < chunk_arg
    /\ Len(summary.result) = 2 * Len(summary.calls) - 1

(***************************************************************************)
(* Properties of main() (Spec)                                             *)
(***************************************************************************)
\* The heading names of a report: the pieces that follow a "## ".
Headings(report) ==
    LET at == {i \in DOMAIN report : report[i] = "## "}
        Nth(k) == CHOOSE i \in at : Cardinality({j \in at : j < i}) = k - 1
    IN  [k \in 1..Cardinality(at) |-> report[Nth(k) + 1]]

\* What the i-th loop iteration appended to the report.
Block(i) == SubSeq(report_content, log[i].from + 1, log[i].to)

RECURSIVE SumLoads(_)
SumLoads(l) == IF l = <<>> THEN 0 ELSE Head(l).loads + SumLoads(Tail(l))

\* The section has content: it is in the map and not empty.
HasContent(name) == name \in DOMAIN sections /\ sections[name] # <<>>

\* The entry gets a block: it is summary or contribution, or has content.
Reported(name) == name \in {"summary", "contribution"} \/ HasContent(name)

\* The entry is handed to summarize_text.
Summarizes(name) ==
    \/ name = "summary"
    \/ /\ name = "contribution"
       /\ \/ Strip(Get(sections, "abstract", <<>>)) # <<>>
          \/ Strip(Get(sections, "conclusion", <<>>)) # <<>>
    \/ /\ name \in {"introduction", "method", "results", "conclusion",
                    "literature_review"}
       /\ HasContent(name)

RunOver == pc = "done" /\ ~pdf_error

NineSections ==
    <<"title", "abstract", "summary", "introduction", "method", "results",
      "conclusion", "contribution", "literature_review">>

C2_LoadedAtMostOnce == SumLoads(log) <= 1

\* C2, amended: the model is loaded once by every summarize_text call, that
\* is once for each report entry that is summarized, however many chunks the
\* entry has; only the chunks of one call share a handle.
C2_OneLoadPerCall ==
    /\ \A i \in DOMAIN log :
         /\ log[i].loads = IF Summarizes(log[i].name) THEN 1 ELSE 0
         /\ log[i].calls # <<>> => log[i].loads = 1
    /\ SumLoads(log) = Cardinality({i \in DOMAIN log : Summarizes(log[i].name)})

\* Two summarized entries, one of them in more than one chunk: two loads.
C2_Witness ==
    /\ RunOver
    /\ Len(log) = 2
    /\ Len(log[1].calls) >= 2
    /\ log[1].loads = 1
    /\ log[2].calls # <<>>
    /\ SumLoads(log) = 2

\* C3: with 'all' anywhere in the request the effective list is the fixed
\* list of nine names, whatever else was requested; without 'all' it is the
\* request itself.
C3_Expansion ==
    pc \in {"loop", "done"} /\ ~pdf_error =>
        requested_sections =
            IF \E i \in DOMAIN section_arg : section_arg[i] = "all"
            THEN <<"title", "abstract", "summary", "introduction", "method",
                   "results", "conclusion", "contribution", "literature_review">>
            ELSE section_arg

\* 'all' after an explicit references: references is gone from the list.
C3_Witness ==
    /\ pc = "loop"
    /\ section_arg = <<"references", "all">>
    /\ Len(requested_sections) = 9
    /\ "references" \notin Range(requested_sections)

\* C4: when reading the PDF fails the run is over: the splitter has not run,
\* nothing was summarized, no report was assembled and no write was tried.
C4_ReadFailureEndsRun ==
    pdf_error =>
        /\ pc = "done"
        /\ sections = <<>>
        /\ requested_sections = <<>>
        /\ log = <<>>
        /\ report_content = <<>>
        /\ final_report = <<>>
        /\ saved = "no"

C4_Witness == pdf_error /\ pc = "done" /\ Len(section_arg) = 2

\* The summarize_text call of the i-th iteration failed to load the model.
LoadFailed(i) == log[i].loads = 1 /\ ~log[i].loaded

\* C5: a failed model load does not end the run: the entry it was for gets
\* the error string as its body under its usual heading and no chunk goes to
\* the summarizer for it; the entries are taken in request order, before and
\* after a failure, and at the end the report is assembled from all of them
\* and handed to save_to_markdown.
C5_LoadFailureIsNotFatal ==
    /\ \A i \in DOMAIN log :
         /\ i <= Len(requested_sections)
         /\ log[i].name = requested_sections[i]
         /\ LoadFailed(i) =>
              /\ Summarizes(log[i].name)
              /\ log[i].calls = <<>>
              /\ Block(i) = <<"## ", HeadingName(log[i].name), "\n",
                              "Failed to load model. Error: ", "e", "\n\n">>
    /\ (\E i \in DOMAIN log : LoadFailed(i)) =>
         /\ pc \in {"loop", "done"}
         /\ pc = "loop" => ENABLED (ProcessSection \/ Finish)
         /\ pc = "done" =>
              /\ Len(log) = Len(requested_sections)
              /\ saved \in {"written", "failed"}
              /\ \E k \in 0..Len(final_report) :
                   SubSeq(final_report, k + 1, k + Len(report_content)) = report_content

\* After an entry reported without a summary a load fails for one entry; a
\* later one is summarized with the model loaded, and the report is written.
C5_Witness ==
    /\ pc = "done"
    /\ saved = "written"
    /\ \E i, j, k \in DOMAIN log :
         /\ j < i /\ i < k
         /\ ~log[j].skipped /\ log[j].loads = 0
         /\ LoadFailed(i)
         /\ log[k].loads = 1 /\ log[k].loaded /\ log[k].calls # <<>>

\* C7: a contribution entry, with neither abstract nor conclusion in the
\* section map, is its heading and the fixed message, without a model load
\* or a summarizer call; with a non-blank abstract or conclusion, the two
\* joined by a space are summarized.
C7_ContributionFallback ==
    \A i \in DOMAIN log :
        log[i].name = "contribution" =>
            LET abstract == Get(sections, "abstract", <<>>)
                conclusion == Get(sections, "conclusion", <<>>)
                joined == abstract \o <<" ">> \o conclusion
            IN  /\ ("abstract" \notin DOMAIN sections /\ "conclusion" \notin DOMAIN sections) =>
                     /\ Block(i) =
                            <<"## ", "Contribution", "\n",
                              "Could not determine contribution (abstract or conclusion not found).\n\n">>
                     /\ log[i].loads = 0
                     /\ log[i].calls = <<>>
                /\ (Strip(abstract) # <<>> \/ Strip(conclusion) # <<>>) =>
                     /\ log[i].loads = 1
                     /\ log[i].loaded =>
                          /\ Flatten(log[i].calls) = joined
                          /\ Block(i) =
                                 <<"## ", "Contribution", "\n">>
                                     \o JoinSpace([k \in DOMAIN log[i].calls |->
                                                      Summarizer(log[i].calls[k])])
                                     \o <<"\n\n">>

\* Contribution asked for on a paper with neither abstract nor conclusion.
C7_Witness ==
    /\ Len(log) >= 1
    /\ log[1].name = "contribution"
    /\ full_text # <<>>
    /\ "abstract" \notin DOMAIN sections
    /\ "conclusion" \notin DOMAIN sections
    /\ log[1].loads = 0
    /\ Len(Block(1)) = 4

\* The number of times name is in the sequence s.
Count(s, name) == Cardinality({i \in DOMAIN s : s[i] = name})

BlocksInRequestOrder ==
    pc \in {"loop", "done"} /\ ~pdf_error =>
        /\ \A i \in DOMAIN log :
             /\ log[i].name = requested_sections[i]
             /\ log[i].from = IF i = 1 THEN 0 ELSE log[i - 1].to
             /\ log[i].skipped = ~Reported(log[i].name)
             /\ IF Reported(log[i].name)
                THEN /\ log[i].to >= log[i].from + 3
                     /\ SubSeq(Block(i), 1, 3) = <<"## ", HeadingName(log[i].name), "\n">>
                     /\ Count(Block(i), "## ") = 1
                     /\ log[i].loads = IF Summarizes(log[i].name) THEN 1 ELSE 0
                ELSE log[i].to = log[i].from
        /\ Len(report_content) = IF log = <<>> THEN 0 ELSE log[Len(log)].to
        /\ \A name \in Range(requested_sections) :
             Count(Headings(report_content), HeadingName(name))
                 = IF Reported(name)
                   THEN Count(SubSeq(requested_sections, 1, Len(log)), name)
                   ELSE 0
        /\ pc = "done" =>
             /\ Len(log) = Len(requested_sections)
             /\ final_report =
                    <<"# Analysis of ">> \o sections["title"] \o <<"\n\n">>
                        \o report_content
                        \o <<"---\n*Report generated by the AI Paper Deconstructor.*">>

====
